---- MODULE Spec2Model ----
(***************************************************************************)
(* Page-replacement simulator (src/algorithms.js, src/app.js).             *)
(*                                                                         *)
(* JavaScript arrays are modelled as TLA+ sequences and are read and       *)
(* written through At / Put / IndexOf, which keep the source's 0-based     *)
(* indices.  Pages are natural numbers; the JavaScript value null is the   *)
(* integer null, which is outside the set of pages the model draws from.   *)
(***************************************************************************)
EXTENDS Integers, Sequences, FiniteSets, TLC

\* ------------------------------------------------------------------ bounds
MaxPage == 4
MaxLen == 6
MaxCap == 3

\* ------------------------------------------------- values of the language
null == -1
Infinity == 1000000
NegInfinity == 0 - Infinity

Pages == 1..MaxPage

\* arr[i]
At(arr, i) == arr[i + 1]

\* arr[i] = v
Put(arr, i, v) == [arr EXCEPT ![i + 1] = v]

\* arr.indexOf(v): the first 0-based index holding v, or -1
IndexOf(arr, v) ==
  IF \E k \in 1..Len(arr) : arr[k] = v
  THEN (CHOOSE k \in 1..Len(arr) : arr[k] = v /\ \A j \in 1..(k - 1) : arr[j] # v) - 1
  ELSE -1

\* Array(n).fill(v)
Fill(n, v) == [k \in 1..n |-> v]

cloneArray(arr) == arr

\* Map.set / Map.delete on a map modelled as a function on its key set
MapSet(m, k, v) == [x \in (DOMAIN m) \cup {k} |-> IF x = k THEN v ELSE m[x]]
MapDelete(m, k) == [x \in (DOMAIN m) \ {k} |-> m[x]]
EmptyMap == [x \in {} |-> 0]

\* ------------------------------------------------------------ step record
\* makeStep numbering the records from 1
makeStepOneBased(i, page, frames) ==
  [index |-> i + 1, page |-> page, frames |-> cloneArray(frames),
   hit |-> FALSE, fault |-> FALSE, replaced |-> null, replacedIndex |-> null,
   note |-> <<"">>, meta |-> null]

makeStep(i, page, frames) ==
  [index |-> i, page |-> page, frames |-> cloneArray(frames),
   hit |-> FALSE, fault |-> FALSE, replaced |-> null, replacedIndex |-> null,
   note |-> <<"">>, meta |-> null]

\* the push without the second snapshot: the record keeps makeStep's
PushStepStale(L, step) == [L EXCEPT !.steps = Append(@, step)]

\* step.frames = cloneArray(frames); steps.push(step)
PushStep(L, step) ==
  [L EXCEPT !.steps = Append(@, [step EXCEPT !.frames = cloneArray(L.frames)])]

\* ------------------------------------------------------------------- FIFO
\* the hit that also moves the pointer on
FIFOHitAdvancing(L, step, p) ==
  LET L1 == [L EXCEPT !.hits = @ + 1, !.pointer = (@ + 1) % Len(L.frames)]
  IN PushStep(L1, [step EXCEPT !.hit = TRUE, !.note = <<"HIT", p>>])

FIFOHit(L, step, p) ==
  LET L1 == [L EXCEPT !.hits = @ + 1]
  IN PushStep(L1, [step EXCEPT !.hit = TRUE, !.note = <<"HIT", p>>])

\* the first fill that stores at the pointer instead of the empty slot
FIFOFillAtPointer(L, step, p, emptyIndex) ==
  LET L1 == [L EXCEPT !.faults = @ + 1, !.frames = Put(@, L.pointer, p)]
  IN PushStep(L1, [step EXCEPT !.fault = TRUE, !.note = <<"FAULT-EMPTY", p, emptyIndex>>])

FIFOFill(L, step, p, emptyIndex) ==
  LET L1 == [L EXCEPT !.faults = @ + 1, !.frames = Put(@, emptyIndex, p)]
  IN PushStep(L1, [step EXCEPT !.fault = TRUE, !.note = <<"FAULT-EMPTY", p, emptyIndex>>])

\* the eviction without the advance of the pointer
FIFOEvictStuck(L, step, p, framesCount) ==
  LET victimIndex == L.pointer
      victimPage == At(L.frames, victimIndex)
      L1 == [L EXCEPT !.faults = @ + 1, !.frames = Put(@, victimIndex, p)]
  IN PushStep(L1, [step EXCEPT !.fault = TRUE, !.replaced = victimPage,
                               !.replacedIndex = victimIndex,
                               !.note = <<"FAULT-FIFO", victimPage, victimIndex>>])

FIFOEvict(L, step, p, framesCount) ==
  LET victimIndex == L.pointer
      victimPage == At(L.frames, victimIndex)
      L1 == [L EXCEPT !.faults = @ + 1,
                      !.frames = Put(@, victimIndex, p),
                      !.pointer = (@ + 1) % framesCount]
  IN PushStep(L1, [step EXCEPT !.fault = TRUE, !.replaced = victimPage,
                               !.replacedIndex = victimIndex,
                               !.note = <<"FAULT-FIFO", victimPage, victimIndex>>])

\* the hit test written hitIndex > 0
FIFOBodyHitPositive(L, framesCount, refs, i) ==
  LET p == At(refs, i)
      step == makeStep(i, p, L.frames)
      hitIndex == IndexOf(L.frames, p)
      emptyIndex == IndexOf(L.frames, null)
  IN IF hitIndex > 0 THEN FIFOHit(L, step, p)
     ELSE IF emptyIndex # -1 THEN FIFOFill(L, step, p, emptyIndex)
     ELSE FIFOEvict(L, step, p, framesCount)

\* one iteration of the for loop of simulateFIFO
FIFOBody(L, framesCount, refs, i) ==
  LET p == At(refs, i)
      step == makeStep(i, p, L.frames)
      hitIndex == IndexOf(L.frames, p)
      emptyIndex == IndexOf(L.frames, null)
  IN IF hitIndex # -1 THEN FIFOHit(L, step, p)
     ELSE IF emptyIndex # -1 THEN FIFOFill(L, step, p, emptyIndex)
     ELSE FIFOEvict(L, step, p, framesCount)

\* -------------------------------------------------------------------- LRU
\* the hit that stamps the page with the step before the first
LRUHitStampedOld(L, step, p, i) ==
  LET L1 == [L EXCEPT !.hits = @ + 1, !.lastUsed = MapSet(@, p, 0 - 1)]
  IN PushStep(L1, [step EXCEPT !.hit = TRUE, !.note = <<"HIT-LRU", p, i>>])

\* the hit that does not refresh the page's timestamp
LRUHitNoTouch(L, step, p, i) ==
  LET L1 == [L EXCEPT !.hits = @ + 1]
  IN PushStep(L1, [step EXCEPT !.hit = TRUE, !.note = <<"HIT-LRU", p, i>>])

LRUHit(L, step, p, i) ==
  LET L1 == [L EXCEPT !.hits = @ + 1, !.lastUsed = MapSet(@, p, i)]
  IN PushStep(L1, [step EXCEPT !.hit = TRUE, !.note = <<"HIT-LRU", p, i>>])

LRUFill(L, step, p, i, emptyIndex) ==
  LET L1 == [L EXCEPT !.faults = @ + 1, !.frames = Put(@, emptyIndex, p),
                      !.lastUsed = MapSet(@, p, i)]
  IN PushStep(L1, [step EXCEPT !.fault = TRUE, !.note = <<"FAULT-EMPTY", p, emptyIndex>>])

\* lastUsed.has(page) ? lastUsed.get(page) : -Infinity
LRUStamp(lastUsed, page) ==
  IF page \in DOMAIN lastUsed THEN lastUsed[page] ELSE NegInfinity

LRUBetter(t, minLastUsed) == t < minLastUsed

\* the scan for (fi = 0; fi < framesCount; fi++) from fi on, acc holding
\* victimIndex, victimPage and minLastUsed
RECURSIVE LRUScan(_, _, _, _, _)
LRUScan(frames, lastUsed, framesCount, fi, acc) ==
  IF fi >= framesCount THEN acc
  ELSE LET page == At(frames, fi)
           t == LRUStamp(lastUsed, page)
       IN LRUScan(frames, lastUsed, framesCount, fi + 1,
                  IF LRUBetter(t, acc.minLastUsed)
                  THEN [victimIndex |-> fi, victimPage |-> page, minLastUsed |-> t]
                  ELSE acc)

LRUVictim(frames, lastUsed, framesCount) ==
  LRUScan(frames, lastUsed, framesCount, 0,
          [victimIndex |-> -1, victimPage |-> null, minLastUsed |-> Infinity])

\* the eviction that leaves the victim's timestamp in the map
LRUEvictNoDelete(L, step, p, i, framesCount) ==
  LET v == LRUVictim(L.frames, L.lastUsed, framesCount)
      L1 == [L EXCEPT !.faults = @ + 1,
                      !.frames = Put(@, v.victimIndex, p),
                      !.lastUsed = MapSet(@, p, i)]
  IN PushStep(L1, [step EXCEPT !.fault = TRUE, !.replaced = v.victimPage,
                               !.replacedIndex = v.victimIndex,
                               !.note = <<"FAULT-LRU", v.victimPage, v.victimIndex,
                                          v.minLastUsed>>])

LRUEvict(L, step, p, i, framesCount) ==
  LET v == LRUVictim(L.frames, L.lastUsed, framesCount)
      L1 == [L EXCEPT !.faults = @ + 1,
                      !.frames = Put(@, v.victimIndex, p),
                      !.lastUsed = MapSet(MapDelete(@, v.victimPage), p, i)]
  IN PushStep(L1, [step EXCEPT !.fault = TRUE, !.replaced = v.victimPage,
                               !.replacedIndex = v.victimIndex,
                               !.note = <<"FAULT-LRU", v.victimPage, v.victimIndex,
                                          v.minLastUsed>>])

\* one iteration of the for loop of simulateLRU
LRUBody(L, framesCount, refs, i) ==
  LET p == At(refs, i)
      step == makeStep(i, p, L.frames)
      hitIndex == IndexOf(L.frames, p)
      emptyIndex == IndexOf(L.frames, null)
  IN IF hitIndex # -1 THEN LRUHit(L, step, p, i)
     ELSE IF emptyIndex # -1 THEN LRUFill(L, step, p, i, emptyIndex)
     ELSE LRUEvict(L, step, p, i, framesCount)

\* -------------------------------------------------------------------- OPT
OPTHit(L, step, p) ==
  LET L1 == [L EXCEPT !.hits = @ + 1]
  IN PushStep(L1, [step EXCEPT !.hit = TRUE, !.note = <<"HIT", p>>])

\* the first-fill fault that is not counted
OPTFillUncounted(L, step, p, emptyIndex) ==
  LET L1 == [L EXCEPT !.frames = Put(@, emptyIndex, p)]
  IN PushStep(L1, [step EXCEPT !.fault = TRUE, !.note = <<"FAULT-EMPTY", p, emptyIndex>>])

OPTFill(L, step, p, emptyIndex) ==
  LET L1 == [L EXCEPT !.faults = @ + 1, !.frames = Put(@, emptyIndex, p)]
  IN PushStep(L1, [step EXCEPT !.fault = TRUE, !.note = <<"FAULT-EMPTY", p, emptyIndex>>])

\* the inner loop for (j = i + 1; j < refs.length; j++) from j on
RECURSIVE OPTNextUse(_, _, _)
OPTNextUse(refs, page, j) ==
  IF j >= Len(refs) THEN Infinity
  ELSE IF At(refs, j) = page THEN j
  ELSE OPTNextUse(refs, page, j + 1)

\* the comparison turned round: the nearest next use wins
OPTBetterNearest(nextUse, farthestNextUse) == nextUse < farthestNextUse

\* the comparison that lets a later slot win a tie
OPTBetterOrEqual(nextUse, farthestNextUse) == nextUse >= farthestNextUse

OPTBetter(nextUse, farthestNextUse) == nextUse > farthestNextUse

\* the scan for (fi = 0; fi < framesCount; fi++) from fi on, acc holding
\* victimIndex, victimPage and farthestNextUse
RECURSIVE OPTScan(_, _, _, _, _, _)
OPTScan(frames, refs, i, framesCount, fi, acc) ==
  IF fi >= framesCount THEN acc
  ELSE LET page == At(frames, fi)
           nextUse == OPTNextUse(refs, page, i + 1)
       IN OPTScan(frames, refs, i, framesCount, fi + 1,
                  IF OPTBetter(nextUse, acc.farthestNextUse)
                  THEN [victimIndex |-> fi, victimPage |-> page,
                        farthestNextUse |-> nextUse]
                  ELSE acc)

OPTVictim(frames, refs, i, framesCount) ==
  OPTScan(frames, refs, i, framesCount, 0,
          [victimIndex |-> 0, victimPage |-> At(frames, 0), farthestNextUse |-> -1])

\* the eviction that reads the victim's identifier out of the slot after
\* the requested identifier has been stored there
OPTEvictReadAfterWrite(L, step, p, refs, i, framesCount) ==
  LET v == OPTVictim(L.frames, refs, i, framesCount)
      L1 == [L EXCEPT !.faults = @ + 1, !.frames = Put(@, v.victimIndex, p)]
  IN PushStep(L1, [step EXCEPT !.fault = TRUE, !.replaced = At(L1.frames, v.victimIndex),
                               !.replacedIndex = v.victimIndex,
                               !.note = IF v.farthestNextUse = Infinity
                                        THEN <<"FAULT-OPT-NEVER", v.victimPage>>
                                        ELSE <<"FAULT-OPT", v.victimPage,
                                               v.farthestNextUse>>])

OPTEvict(L, step, p, refs, i, framesCount) ==
  LET v == OPTVictim(L.frames, refs, i, framesCount)
      L1 == [L EXCEPT !.faults = @ + 1, !.frames = Put(@, v.victimIndex, p)]
  IN PushStep(L1, [step EXCEPT !.fault = TRUE, !.replaced = v.victimPage,
                               !.replacedIndex = v.victimIndex,
                               !.note = IF v.farthestNextUse = Infinity
                                        THEN <<"FAULT-OPT-NEVER", v.victimPage>>
                                        ELSE <<"FAULT-OPT", v.victimPage,
                                               v.farthestNextUse>>])

\* one iteration of the for loop of simulateOPT
OPTBody(L, framesCount, refs, i) ==
  LET p == At(refs, i)
      step == makeStep(i, p, L.frames)
      hitIndex == IndexOf(L.frames, p)
      emptyIndex == IndexOf(L.frames, null)
  IN IF hitIndex # -1 THEN OPTHit(L, step, p)
     ELSE IF emptyIndex # -1 THEN OPTFill(L, step, p, emptyIndex)
     ELSE OPTEvict(L, step, p, refs, i, framesCount)

\* ------------------------------------------------------------------ CLOCK
\* step.meta = { refBits: cloneArray(refBits), hand }; steps.push(step)
CLOCKPushStep(L, step) ==
  PushStep(L, [step EXCEPT !.meta = [refBits |-> cloneArray(L.refBits), hand |-> L.hand]])

\* the hit that also records the slot it found as replaced
CLOCKHitReplacing(L, step, p, hitIndex) ==
  LET L1 == [L EXCEPT !.hits = @ + 1, !.refBits = Put(@, hitIndex, 1)]
  IN CLOCKPushStep(L1, [step EXCEPT !.hit = TRUE, !.replacedIndex = hitIndex,
                                    !.note = <<"HIT-CLOCK", p, hitIndex>>])

CLOCKHit(L, step, p, hitIndex) ==
  LET L1 == [L EXCEPT !.hits = @ + 1, !.refBits = Put(@, hitIndex, 1)]
  IN CLOCKPushStep(L1, [step EXCEPT !.hit = TRUE, !.note = <<"HIT-CLOCK", p, hitIndex>>])

\* the first fill that leaves the new slot's reference bit at 0
CLOCKFillNoBit(L, step, p, emptyIndex) ==
  LET L1 == [L EXCEPT !.faults = @ + 1, !.frames = Put(@, emptyIndex, p)]
  IN CLOCKPushStep(L1, [step EXCEPT !.fault = TRUE,
                                    !.note = <<"FAULT-EMPTY-CLOCK", p, emptyIndex>>])

CLOCKFill(L, step, p, emptyIndex) ==
  LET L1 == [L EXCEPT !.faults = @ + 1, !.frames = Put(@, emptyIndex, p),
                      !.refBits = Put(@, emptyIndex, 1)]
  IN CLOCKPushStep(L1, [step EXCEPT !.fault = TRUE,
                                    !.note = <<"FAULT-EMPTY-CLOCK", p, emptyIndex>>])

SafetyFactor == 5

\* if (scans > framesCount * 5) throw
CLOCKSafetyBreak(scans, framesCount) == scans > framesCount * SafetyFactor

\* the scan that leaves the hand on the victim's slot after an eviction
RECURSIVE CLOCKScanNoAdvance(_, _, _, _)
CLOCKScanNoAdvance(S, p, framesCount, scans0) ==
  LET scans == scans0 + 1
      L == S.L
  IN IF At(L.refBits, L.hand) = 0
     THEN LET victimIndex == L.hand
              victimPage == At(L.frames, victimIndex)
          IN [L |-> [L EXCEPT !.frames = Put(@, victimIndex, p),
                              !.refBits = Put(@, victimIndex, 1)],
              step |-> [S.step EXCEPT !.replaced = victimPage,
                                      !.replacedIndex = victimIndex,
                                      !.note = <<"FAULT-CLOCK", victimPage,
                                                 victimIndex, scans>>]]
     ELSE LET S1 == [S EXCEPT !.L = [L EXCEPT !.refBits = Put(@, L.hand, 0),
                                              !.hand = (@ + 1) % framesCount]]
          IN IF CLOCKSafetyBreak(scans, framesCount)
             THEN [S1 EXCEPT !.L.threw = TRUE]
             ELSE CLOCKScanNoAdvance(S1, p, framesCount, scans)

\* the scan that gives a second chance without clearing the reference bit
RECURSIVE CLOCKScanNoClear(_, _, _, _)
CLOCKScanNoClear(S, p, framesCount, scans0) ==
  LET scans == scans0 + 1
      L == S.L
  IN IF At(L.refBits, L.hand) = 0
     THEN LET victimIndex == L.hand
              victimPage == At(L.frames, victimIndex)
          IN [L |-> [L EXCEPT !.frames = Put(@, victimIndex, p),
                              !.refBits = Put(@, victimIndex, 1),
                              !.hand = (@ + 1) % framesCount],
              step |-> [S.step EXCEPT !.replaced = victimPage,
                                      !.replacedIndex = victimIndex,
                                      !.note = <<"FAULT-CLOCK", victimPage,
                                                 victimIndex, scans>>]]
     ELSE LET S1 == [S EXCEPT !.L = [L EXCEPT !.hand = (@ + 1) % framesCount]]
          IN IF CLOCKSafetyBreak(scans, framesCount)
             THEN [S1 EXCEPT !.L.threw = TRUE]
             ELSE CLOCKScanNoClear(S1, p, framesCount, scans)

\* the while (true) loop from one iteration on; scans counts the iterations
\* already made.  S holds the locals and the step being filled in.
RECURSIVE CLOCKScan(_, _, _, _)
CLOCKScan(S, p, framesCount, scans0) ==
  LET scans == scans0 + 1
      L == S.L
  IN IF At(L.refBits, L.hand) = 0
     THEN LET victimIndex == L.hand
              victimPage == At(L.frames, victimIndex)
          IN [L |-> [L EXCEPT !.frames = Put(@, victimIndex, p),
                              !.refBits = Put(@, victimIndex, 1),
                              !.hand = (@ + 1) % framesCount],
              step |-> [S.step EXCEPT !.replaced = victimPage,
                                      !.replacedIndex = victimIndex,
                                      !.note = <<"FAULT-CLOCK", victimPage,
                                                 victimIndex, scans>>]]
     ELSE LET S1 == [S EXCEPT !.L = [L EXCEPT !.refBits = Put(@, L.hand, 0),
                                              !.hand = (@ + 1) % framesCount]]
          IN IF CLOCKSafetyBreak(scans, framesCount)
             THEN [S1 EXCEPT !.L.threw = TRUE]
             ELSE CLOCKScan(S1, p, framesCount, scans)

CLOCKEvict(L, step, p, framesCount) ==
  LET S == CLOCKScan([L |-> [L EXCEPT !.faults = @ + 1],
                      step |-> [step EXCEPT !.fault = TRUE]], p, framesCount, 0)
  IN IF S.L.threw THEN S.L ELSE CLOCKPushStep(S.L, S.step)

\* the loop body taking the highest empty slot for a first fill
CLOCKBodyLastEmpty(L, framesCount, refs, i) ==
  LET p == At(refs, i)
      step == makeStep(i, p, L.frames)
      hitIndex == IndexOf(L.frames, p)
      emptyIndex == IF IndexOf(L.frames, null) = -1 THEN -1
                    ELSE (CHOOSE k \in 1..Len(L.frames) :
                            /\ L.frames[k] = null
                            /\ \A j \in (k + 1)..Len(L.frames) : L.frames[j] # null) - 1
  IN IF hitIndex # -1 THEN CLOCKHit(L, step, p, hitIndex)
     ELSE IF emptyIndex # -1 THEN CLOCKFill(L, step, p, emptyIndex)
     ELSE CLOCKEvict(L, step, p, framesCount)

\* one iteration of the for loop of simulateCLOCK
CLOCKBody(L, framesCount, refs, i) ==
  LET p == At(refs, i)
      step == makeStep(i, p, L.frames)
      hitIndex == IndexOf(L.frames, p)
      emptyIndex == IndexOf(L.frames, null)
  IN IF hitIndex # -1 THEN CLOCKHit(L, step, p, hitIndex)
     ELSE IF emptyIndex # -1 THEN CLOCKFill(L, step, p, emptyIndex)
     ELSE CLOCKEvict(L, step, p, framesCount)

\* --------------------------------------------------------------- dispatch
Body(algoName, L, framesCount, refs, i) ==
  CASE algoName = "FIFO" -> FIFOBody(L, framesCount, refs, i)
    [] algoName = "LRU" -> LRUBody(L, framesCount, refs, i)
    [] algoName = "OPT" -> OPTBody(L, framesCount, refs, i)
    [] algoName = "CLOCK" -> CLOCKBody(L, framesCount, refs, i)

KnownAlgos == {"FIFO", "LRU", "OPT", "CLOCK"}

\* A number given as the capacity is modelled by its double, so that the
\* non-integer 2.5 is the value 5: x2 stands for the number x2 / 2.
NumberIsInteger(x2) == x2 % 2 = 0
LoFrames == 1
HiFrames == 50

\* function assert(cond, msg): the empty sequence, or the message thrown
assert(cond, msg) == IF cond THEN <<>> ELSE <<msg>>

\* the upper limit off by one
FramesOkUpTo51(x2) == NumberIsInteger(x2) /\ x2 >= 2 * LoFrames /\ x2 <= 2 * HiFrames + 2

FramesOk(x2) == NumberIsInteger(x2) /\ x2 >= 2 * LoFrames /\ x2 <= 2 * HiFrames
RefsOk(r) == Len(r) > 0

\* the two assertions and the default branch of the switch, in order
Validate(a, x2, r) ==
  LET e1 == assert(FramesOk(x2), "Frames must be an integer between 1 and 50.")
      e2 == assert(RefsOk(r), "Reference string cannot be empty.")
  IN IF e1 # <<>> THEN e1
     ELSE IF e2 # <<>> THEN e2
     ELSE IF a \notin KnownAlgos THEN <<"Unknown algorithm: ", a>>
     ELSE <<>>

ClockBreak == <<"Clock algorithm safety break (unexpected loop).">>

\* return { steps, summary: { hits, faults } }
Returned(L) == [steps |-> L.steps, summary |-> [hits |-> L.hits, faults |-> L.faults]]

\* ------------------------------------------------------------------ state
VARIABLES
  algoName, framesCount, refs,   \* the arguments of the running call of simulate
  pc,                            \* "idle", "loop", "done" (returned) or "threw"
  i, frames, pointer, lastUsed, refBits, hand, hits, faults, steps,
                                 \* the locals of the running policy function
  error,                         \* the message thrown, or <<>>
  result,                        \* the value returned, or <<>>
  later                          \* history: the running call followed a call that had ended

\* app.js: the input fields, the state of the page and its controls.  A
\* button variable holds the button's disabled property.
VARIABLES
  framesInput,                   \* Number(framesInput.value), doubled
  algoSelect,                    \* algoSelect.value
  refInput,                      \* refInput.value, as its sequence of tokens
  sim,                           \* <<>> for null, or << { steps, summary } >>
  stepIndex,
  timerId,                       \* null, or the id setInterval returned
  btnStep, btnPlay, btnPause,
  compareWrap,                   \* <<>> for the hint, or the rows of the table
  alerted                        \* the message of the last alert, or <<>>

engineVars == <<algoName, framesCount, refs, pc, i, frames, pointer, lastUsed, refBits,
                hand, hits, faults, steps, error, result, later>>

appVars == <<framesInput, algoSelect, refInput, sim, stepIndex, timerId,
             btnStep, btnPlay, btnPause, compareWrap, alerted>>

vars == <<engineVars, appVars>>

\* The locals a policy function declares, as first assigned.
NewFrames(n) == Fill(n, null)
NewPointer == 0
NewLastUsed == EmptyMap
NewRefBits(n) == Fill(n, 0)
NewHand == 0
NewCounter == 0
\* the trace kept from the run before
StaleSteps == steps

NewSteps == <<>>

\* What the model holds for a local the running function does not declare.
NoLocals ==
  [frames |-> <<>>, pointer |-> 0, lastUsed |-> EmptyMap, refBits |-> <<>>,
   hand |-> 0, hits |-> 0, faults |-> 0, steps |-> <<>>, threw |-> FALSE]

FIFOLocals(n) ==
  [NoLocals EXCEPT !.frames = NewFrames(n), !.pointer = NewPointer,
                   !.hits = NewCounter, !.faults = NewCounter, !.steps = NewSteps]

LRULocals(n) ==
  [NoLocals EXCEPT !.frames = NewFrames(n), !.lastUsed = NewLastUsed,
                   !.hits = NewCounter, !.faults = NewCounter, !.steps = NewSteps]

OPTLocals(n) ==
  [NoLocals EXCEPT !.frames = NewFrames(n),
                   !.hits = NewCounter, !.faults = NewCounter, !.steps = NewSteps]

CLOCKLocals(n) ==
  [NoLocals EXCEPT !.frames = NewFrames(n), !.refBits = NewRefBits(n),
                   !.hand = NewHand,
                   !.hits = NewCounter, !.faults = NewCounter, !.steps = NewSteps]

NewLocals(a, n) ==
  CASE a = "FIFO" -> FIFOLocals(n)
    [] a = "LRU" -> LRULocals(n)
    [] a = "OPT" -> OPTLocals(n)
    [] a = "CLOCK" -> CLOCKLocals(n)

\* the whole for loop, from iteration k on
RECURSIVE Loop(_, _, _, _, _)
Loop(a, L, n, r, k) ==
  IF L.threw \/ k >= Len(r) THEN L
  ELSE Loop(a, Body(a, L, n, r, k), n, r, k + 1)

\* window.PageAlgo.simulate as a function of its arguments
PageAlgoSimulate(a, x2, r) ==
  LET e == Validate(a, x2, r)
  IN IF e # <<>> THEN [error |-> e, result |-> <<>>]
     ELSE LET L == Loop(a, NewLocals(a, x2 \div 2), x2 \div 2, r, 0)
          IN IF L.threw THEN [error |-> ClockBreak, result |-> <<>>]
             ELSE [error |-> <<>>, result |-> <<Returned(L)>>]

\* ------------------------------------------------------------- the inputs
\* The policies only compare pages for equality (indexOf, ===, Map keys), so
\* the references are drawn up to a renaming of the pages: the pages of a
\* sequence appear for the first time in the order 1, 2, 3, ...
Highest(q) ==
  IF q = <<>> THEN 0
  ELSE CHOOSE x \in Pages : /\ \E k \in 1..Len(q) : q[k] = x
                            /\ \A k \in 1..Len(q) : q[k] <= x

RECURSIVE SeqsOfLen(_)
SeqsOfLen(n) ==
  IF n = 0 THEN {<<>>}
  ELSE UNION {{Append(q, x) : x \in {y \in Pages : y <= Highest(q) + 1}}
                : q \in SeqsOfLen(n - 1)}

SmallRefs == UNION {SeqsOfLen(n) : n \in 0..MaxLen}

\* the reference strings of the scenarios the specification names
BeladyRefs == <<1, 2, 3, 4, 1, 2, 5, 1, 2, 3, 4, 5>>
ScenarioRefs == <<1, 2, 1, 3, 2>>

\* capacities, doubled: 0, 0.5, 1.5, the small ones, 50.5, 51
SmallCaps == {0, 1, 3} \cup {2 * n : n \in 1..MaxCap} \cup {2 * HiFrames + 1, 2 * HiFrames + 2}

AlgoNames == KnownAlgos \cup {"MRU"}

Calls ==
  (AlgoNames \X SmallCaps \X SmallRefs)
    \cup (KnownAlgos \X {6, 8} \X {BeladyRefs})
    \cup (KnownAlgos \X {2, 4, 6, 2 * HiFrames} \X {ScenarioRefs})

\* The calls that may follow a call that has ended: the other policies over
\* the same capacity and references (as runAllCompare makes them, and as
\* initSimulation makes them when it is clicked again), or a call of one of
\* the scenarios.
LaterCalls ==
  (AlgoNames \X {framesCount} \X {refs})
    \cup (KnownAlgos \X {4} \X {ScenarioRefs})

Locals ==
  [frames |-> frames, pointer |-> pointer, lastUsed |-> lastUsed, refBits |-> refBits,
   hand |-> hand, hits |-> hits, faults |-> faults, steps |-> steps, threw |-> FALSE]

SetLocals(L) ==
  /\ frames' = L.frames
  /\ pointer' = L.pointer
  /\ lastUsed' = L.lastUsed
  /\ refBits' = L.refBits
  /\ hand' = L.hand
  /\ hits' = L.hits
  /\ faults' = L.faults
  /\ steps' = L.steps

\* ---------------------------------------------------------------- actions
EngineIdle ==
  /\ algoName = ""
  /\ framesCount = 0
  /\ refs = <<>>
  /\ pc = "idle"
  /\ i = 0
  /\ frames = NoLocals.frames
  /\ pointer = NoLocals.pointer
  /\ lastUsed = NoLocals.lastUsed
  /\ refBits = NoLocals.refBits
  /\ hand = NoLocals.hand
  /\ hits = NoLocals.hits
  /\ faults = NoLocals.faults
  /\ steps = NoLocals.steps
  /\ error = <<>>
  /\ result = <<>>
  /\ later = FALSE

\* the page as the initial render leaves it, before anything is typed
PageIdle ==
  /\ framesInput = 0
  /\ algoSelect = "FIFO"
  /\ refInput = <<>>
  /\ sim = <<>>
  /\ stepIndex = 0
  /\ timerId = null
  /\ btnStep = TRUE
  /\ btnPlay = TRUE
  /\ btnPause = TRUE
  /\ compareWrap = <<>>
  /\ alerted = <<>>

Init == EngineIdle /\ PageIdle

\* A call of simulate(a, x2 / 2, r): the assertions, the switch and the
\* declarations of the chosen policy function, up to the head of its loop.
\* A call starts only when no call is running (one thread, run to completion).
simulate(a, x2, r) ==
  /\ pc # "loop"
  /\ algoName' = a
  /\ framesCount' = x2
  /\ refs' = r
  /\ i' = 0
  /\ result' = <<>>
  /\ later' = (pc # "idle")
  /\ UNCHANGED appVars
  /\ error' = Validate(a, x2, r)
  /\ IF Validate(a, x2, r) # <<>>
     THEN /\ pc' = "threw"
          /\ SetLocals(NoLocals)
     ELSE /\ pc' = "loop"
          /\ SetLocals(NewLocals(a, x2 \div 2))

\* the effect of one iteration of a for loop that leaves the locals as L
Iterated(L) ==
  /\ SetLocals(L)
  /\ pc' = IF L.threw THEN "threw" ELSE "loop"
  /\ error' = IF L.threw THEN ClockBreak ELSE error
  /\ i' = i + 1
  /\ UNCHANGED <<algoName, framesCount, refs, result, later, appVars>>

\* one iteration of the for loop of simulateFIFO
simulateFIFO ==
  /\ pc = "loop" /\ algoName = "FIFO" /\ i < Len(refs)
  /\ Iterated(FIFOBody(Locals, framesCount \div 2, refs, i))

\* one iteration of the for loop of simulateLRU
simulateLRU ==
  /\ pc = "loop" /\ algoName = "LRU" /\ i < Len(refs)
  /\ Iterated(LRUBody(Locals, framesCount \div 2, refs, i))

\* one iteration of the for loop of simulateOPT
simulateOPT ==
  /\ pc = "loop" /\ algoName = "OPT" /\ i < Len(refs)
  /\ Iterated(OPTBody(Locals, framesCount \div 2, refs, i))

\* one iteration of the for loop of simulateCLOCK
simulateCLOCK ==
  /\ pc = "loop" /\ algoName = "CLOCK" /\ i < Len(refs)
  /\ Iterated(CLOCKBody(Locals, framesCount \div 2, refs, i))

\* the loop condition fails: return { steps, summary }
Return ==
  /\ pc = "loop"
  /\ i >= Len(refs)
  /\ pc' = "done"
  /\ result' = <<Returned(Locals)>>
  /\ UNCHANGED <<algoName, framesCount, refs, i, frames, pointer, lastUsed, refBits,
                 hand, hits, faults, steps, error, later, appVars>>

Next ==
  \/ \E c \in (IF pc = "idle" THEN Calls ELSE LaterCalls) : simulate(c[1], c[2], c[3])
  \/ simulateFIFO
  \/ simulateLRU
  \/ simulateOPT
  \/ simulateCLOCK
  \/ Return

Spec == Init /\ [][Next]_vars

\* ----------------------------------------------------------------- app.js
\* In the operators of app.js the record U holds the page (the variables of
\* appVars), and n, rs stand for the source's framesCount and refs.
Page ==
  [framesInput |-> framesInput, algoSelect |-> algoSelect, refInput |-> refInput,
   sim |-> sim, stepIndex |-> stepIndex, timerId |-> timerId, btnStep |-> btnStep,
   btnPlay |-> btnPlay, btnPause |-> btnPause, compareWrap |-> compareWrap,
   alerted |-> alerted]

SetPage(U) ==
  /\ framesInput' = U.framesInput
  /\ algoSelect' = U.algoSelect
  /\ refInput' = U.refInput
  /\ sim' = U.sim
  /\ stepIndex' = U.stepIndex
  /\ timerId' = U.timerId
  /\ btnStep' = U.btnStep
  /\ btnPlay' = U.btnPlay
  /\ btnPause' = U.btnPause
  /\ compareWrap' = U.compareWrap
  /\ alerted' = U.alerted

safeAlert(U, msg) == [U EXCEPT !.alerted = msg]

Smaller(a, b) == IF a < b THEN a ELSE b
Larger(a, b) == IF a > b THEN a ELSE b
clamp(n, lo, hi) == Larger(lo, Smaller(hi, n))

\* parseFramesCount: the message thrown, or the clamped count that is
\* returned and written back to the field
parseFramesCount(U) ==
  IF ~NumberIsInteger(U.framesInput)
  THEN [error |-> <<"Frames must be an integer.">>, U |-> U, n |-> 0]
  ELSE LET clamped == clamp(U.framesInput \div 2, 1, 50)
       IN [error |-> <<>>, U |-> [U EXCEPT !.framesInput = 2 * clamped], n |-> clamped]

\* A token of the reference field is the integer it spells; a token that
\* does not match /^[-+]?\d+$/ is the value BadToken.
BadToken == -2

parseRefs(text) ==
  IF text = <<>> THEN [error |-> <<>>, rs |-> <<>>]
  ELSE IF \E k \in 1..Len(text) : text[k] = BadToken
  THEN [error |-> <<"Invalid page value: ", BadToken>>, rs |-> <<>>]
  ELSE [error |-> <<>>, rs |-> text]

stopTimer(U) ==
  [U EXCEPT !.timerId = null,
            !.btnPause = TRUE,
            !.btnPlay = ~(U.sim # <<>> /\ U.stepIndex < Len(U.sim[1].steps))]

setInitializedUI(U, enabled) ==
  [U EXCEPT !.btnStep = ~enabled, !.btnPlay = ~enabled, !.btnPause = TRUE]

resetUIOnly(U) == setInitializedUI(U, FALSE)

renderEmptyCompareHint(U) == [U EXCEPT !.compareWrap = <<>>]

\* Number.prototype.toFixed(2) of a / b, in hundredths
toFixed2(a, b) == (200 * a + b) \div (2 * b)

algos == <<"FIFO", "LRU", "OPT", "CLOCK">>

\* the callback of algos.map, given what simulate returned
CompareRow(a, r, total) ==
  [algo |-> a, hits |-> r.summary.hits, faults |-> r.summary.faults,
   hitRatio |-> toFixed2(r.summary.hits, total),
   faultRatio |-> toFixed2(r.summary.faults, total)]

\* faults the other way round
compareResultsDescending(x, y) ==
  IF y.faults - x.faults # 0 THEN y.faults - x.faults ELSE y.hits - x.hits

\* (x, y) => (x.faults - y.faults) || (y.hits - x.hits)
compareResults(x, y) ==
  IF x.faults - y.faults # 0 THEN x.faults - y.faults ELSE y.hits - x.hits

\* Array.prototype.sort is stable: x goes before the first element that the
\* comparator puts after it
SortInsert(arr, x) ==
  LET after == {k \in 1..Len(arr) : compareResults(arr[k], x) > 0}
      at == IF after = {} THEN Len(arr) + 1
            ELSE CHOOSE k \in after : \A j \in after : k <= j
  IN SubSeq(arr, 1, at - 1) \o <<x>> \o SubSeq(arr, at, Len(arr))

RECURSIVE SortFrom(_, _, _)
SortFrom(arr, k, acc) ==
  IF k > Len(arr) THEN acc ELSE SortFrom(arr, k + 1, SortInsert(acc, arr[k]))

Sort(arr) == SortFrom(arr, 1, <<>>)

\* the rows of the table, with the rank idx + 1
CompareTable(results) ==
  [k \in 1..Len(results) |->
     [algo |-> results[k].algo, hits |-> results[k].hits, faults |-> results[k].faults,
      hitRatio |-> results[k].hitRatio, faultRatio |-> results[k].faultRatio,
      rank |-> k]]

\* the body of the try block of runAllCompare after stopTimer and the parsing
CompareAll(U, n, rs) ==
  LET out == [k \in 1..Len(algos) |-> PageAlgoSimulate(algos[k], 2 * n, rs)]
  IN IF \E k \in 1..Len(algos) : out[k].error # <<>>
     THEN LET first == CHOOSE k \in 1..Len(algos) :
                         /\ out[k].error # <<>>
                         /\ \A j \in 1..(k - 1) : out[j].error = <<>>
          IN safeAlert(U, out[first].error)
     ELSE LET results == [k \in 1..Len(algos) |->
                            CompareRow(algos[k], out[k].result[1], Len(rs))]
          IN [U EXCEPT !.compareWrap = CompareTable(Sort(results))]

RunAllCompared(U0) ==
  LET U1 == stopTimer(U0)
      f == parseFramesCount(U1)
      t == parseRefs(f.U.refInput)
  IN IF f.error # <<>> THEN safeAlert(U1, f.error)
     ELSE IF t.error # <<>> THEN safeAlert(f.U, t.error)
     ELSE IF Len(t.rs) = 0 THEN safeAlert(f.U, <<"Please enter a reference string first.">>)
     ELSE CompareAll(f.U, f.n, t.rs)

\* click on Run All & Compare
runAllCompare ==
  /\ SetPage(RunAllCompared(Page))
  /\ UNCHANGED engineVars

\* click on Reset
resetAll ==
  /\ SetPage(renderEmptyCompareHint(
       resetUIOnly([stopTimer(Page) EXCEPT !.sim = <<>>, !.stepIndex = 0])))
  /\ UNCHANGED engineVars

\* what is typed into the capacity field, doubled: 0, 1.5, the small
\* capacities, 51
TypedFrames == {0, 3, 102} \cup {2 * n : n \in 1..MaxCap}

\* what is typed into the reference field
TypedRefs == SmallRefs \cup {BeladyRefs, <<1, BadToken, 2>>}

\* the page with the fields filled in, before any button is clicked
PageTyped ==
  /\ framesInput \in TypedFrames
  /\ algoSelect = "FIFO"
  /\ refInput \in TypedRefs
  /\ sim = <<>>
  /\ stepIndex = 0
  /\ timerId = null
  /\ btnStep = TRUE
  /\ btnPlay = TRUE
  /\ btnPause = TRUE
  /\ compareWrap = <<>>
  /\ alerted = <<>>

InitCompare == EngineIdle /\ PageTyped

NextCompare ==
  \/ runAllCompare
  \/ resetAll

\* the comparator over typed inputs
SpecCompare == InitCompare /\ [][NextCompare]_vars

\* ---------------------------------------------------- playback controller
\* the catch block of initSimulation, entered from the page U
InitCaught(U, msg) ==
  safeAlert(setInitializedUI(stopTimer([U EXCEPT !.sim = <<>>, !.stepIndex = 0]), FALSE),
            msg)

\* initSimulation run on the page U0
InitSimulated(U0) ==
  LET U1 == stopTimer(U0)
      f == parseFramesCount(U1)
      t == parseRefs(f.U.refInput)
  IN IF f.error # <<>> THEN InitCaught(U1, f.error)
     ELSE IF t.error # <<>> THEN InitCaught(f.U, t.error)
     ELSE IF Len(t.rs) = 0
     THEN safeAlert(f.U, <<"Please enter a reference string (integers separated by spaces/commas).">>)
     ELSE LET out == PageAlgoSimulate(f.U.algoSelect, 2 * f.n, t.rs)
          IN IF out.error # <<>> THEN InitCaught(f.U, out.error)
             ELSE setInitializedUI([f.U EXCEPT !.sim = out.result, !.stepIndex = 0], TRUE)

\* applyOneStep run on the page U0.  The exception of parseFramesCount is
\* not caught: the handler ends there, with nothing changed.
OneStepApplied(U0) ==
  IF U0.sim = <<>> THEN U0
  ELSE IF U0.stepIndex >= Len(U0.sim[1].steps)
  THEN [stopTimer(U0) EXCEPT !.btnStep = TRUE, !.btnPlay = TRUE]
  ELSE LET f == parseFramesCount(U0)
       IN IF f.error # <<>> THEN U0
          ELSE LET U1 == [f.U EXCEPT !.stepIndex = @ + 1]
               IN IF U1.stepIndex >= Len(U1.sim[1].steps)
                  THEN [stopTimer(U1) EXCEPT !.btnStep = TRUE, !.btnPlay = TRUE,
                                             !.btnPause = TRUE]
                  ELSE U1

\* the identifier setInterval returns
IntervalId == 1

\* play run on the page U0
Played(U0) ==
  IF U0.sim = <<>> THEN U0
  ELSE IF U0.timerId # null THEN U0
  ELSE IF U0.stepIndex >= Len(U0.sim[1].steps) THEN U0
  ELSE [U0 EXCEPT !.btnPlay = TRUE, !.btnPause = FALSE, !.btnStep = TRUE,
                  !.timerId = IntervalId]

\* the callback given to setInterval, run on the page U0
Ticked(U0) ==
  IF U0.sim = <<>> THEN stopTimer(U0)
  ELSE IF U0.stepIndex >= Len(U0.sim[1].steps)
  THEN [stopTimer(U0) EXCEPT !.btnStep = TRUE]
  ELSE OneStepApplied(U0)

\* pause run on the page U0
Paused(U0) ==
  LET U1 == stopTimer(U0)
  IN [U1 EXCEPT !.btnStep = ~(U1.sim # <<>> /\ U1.stepIndex < Len(U1.sim[1].steps))]

\* click on Initialize, or Enter in the reference field
initSimulation ==
  /\ SetPage(InitSimulated(Page))
  /\ UNCHANGED engineVars

\* click on Step; a disabled button gets no click
applyOneStep ==
  /\ ~btnStep
  /\ SetPage(OneStepApplied(Page))
  /\ UNCHANGED engineVars

\* click on Play
play ==
  /\ ~btnPlay
  /\ SetPage(Played(Page))
  /\ UNCHANGED engineVars

\* the interval timer fires
tick ==
  /\ timerId # null
  /\ SetPage(Ticked(Page))
  /\ UNCHANGED engineVars

\* click on Pause
pause ==
  /\ ~btnPause
  /\ SetPage(Paused(Page))
  /\ UNCHANGED engineVars

\* what the user types into the capacity field while playing, doubled:
\* 1, 1.5 and 2
PlayFrames == {2, 3, 4}

\* what the user types into the reference field while playing
PlayRefs == {<<>>, <<1, 2>>, <<1, BadToken>>}

\* the policies of the select the user switches between while playing
PlayAlgos == {"FIFO", "CLOCK"}

\* the user edits the capacity field
typeFrames ==
  /\ \E v \in PlayFrames : framesInput' = v
  /\ UNCHANGED <<algoSelect, refInput, sim, stepIndex, timerId, btnStep, btnPlay,
                 btnPause, compareWrap, alerted, engineVars>>

\* the user picks a policy
selectAlgo ==
  /\ \E a \in PlayAlgos : algoSelect' = a
  /\ UNCHANGED <<framesInput, refInput, sim, stepIndex, timerId, btnStep, btnPlay,
                 btnPause, compareWrap, alerted, engineVars>>

\* the user edits the reference field
typeRefs ==
  /\ \E r \in PlayRefs : refInput' = r
  /\ UNCHANGED <<framesInput, algoSelect, sim, stepIndex, timerId, btnStep, btnPlay,
                 btnPause, compareWrap, alerted, engineVars>>

NextApp ==
  \/ typeFrames
  \/ selectAlgo
  \/ typeRefs
  \/ initSimulation
  \/ applyOneStep
  \/ play
  \/ tick
  \/ pause
  \/ resetAll
  \/ runAllCompare

\* the page under any sequence of edits, clicks and timer ticks
SpecApp == Init /\ [][NextApp]_vars

\* ------------------------------------------------------------- properties
\* the capacity of the running call
Capacity == framesCount \div 2

\* the records of the trace built so far
Records == 1..Len(steps)

\* the slot table as it stood before the k-th record's step
Before(k) == IF k = 1 THEN Fill(Capacity, null) ELSE steps[k - 1].frames

HitRecords == {k \in Records : steps[k].hit}
FaultRecords == {k \in Records : steps[k].fault}
Evictions == {k \in Records : steps[k].replaced # null}

\* C1: every record of the trace has exactly one of hit and fault set, the
\* counters hits and faults are the numbers of hit and of fault records, and
\* the summary returned has hits + faults = length(references).
C1_HitsPlusFaults ==
  /\ \A k \in Records : steps[k].hit # steps[k].fault
  /\ hits = Cardinality(HitRecords)
  /\ faults = Cardinality(FaultRecords)
  /\ pc = "done" =>
       /\ result[1].steps = steps
       /\ result[1].summary.hits = Cardinality(HitRecords)
       /\ result[1].summary.faults = Cardinality(FaultRecords)
       /\ result[1].summary.hits + result[1].summary.faults = Len(refs)

C1_Witness ==
  /\ pc = "done"
  /\ algoName = "OPT"
  /\ result[1].summary.hits >= 1
  /\ result[1].summary.faults >= 3

\* C2: the frames snapshot of every record has exactly capacity slots, and no
\* identifier is in two slots of one snapshot.
C2_SnapshotShape ==
  \A k \in Records :
    /\ Len(steps[k].frames) = Capacity
    /\ \A a \in 1..Len(steps[k].frames) :
         steps[k].frames[a] # null =>
           \A b \in 1..Len(steps[k].frames) : steps[k].frames[b] = steps[k].frames[a] => b = a

C2_Witness ==
  /\ pc = "done"
  /\ algoName = "FIFO"
  /\ Capacity = 2
  /\ Evictions # {}
  /\ \E k \in HitRecords : k > 2 /\ At(steps[k].frames, 0) = steps[k].page

\* C3: over the same capacity and references, OPT faults no more often than
\* FIFO, LRU or CLOCK.
C3_OptIsOptimal ==
  (pc = "done" /\ algoName = "OPT") =>
    \A a \in {"FIFO", "LRU", "CLOCK"} :
      result[1].summary.faults
        <= PageAlgoSimulate(a, framesCount, refs).result[1].summary.faults

C3_Witness ==
  /\ pc = "done"
  /\ algoName = "OPT"
  /\ Evictions # {}
  /\ \A a \in {"FIFO", "LRU"} :
       result[1].summary.faults
         < PageAlgoSimulate(a, framesCount, refs).result[1].summary.faults

\* C4 (framesCount holds the capacity doubled, so 100 is 50 and an odd value
\* is no integer): a call with a capacity that is no integer of 1..50 throws
\* the capacity message; with a valid capacity and no references, the empty-references
\* message; with both valid and an unknown policy name, the unknown-policy
\* message; any other call throws nothing.  A call that throws has processed
\* no step and returns nothing.
C4_Validation ==
  (pc # "idle") =>
    LET badFrames == framesCount % 2 # 0 \/ framesCount < 2 \/ framesCount > 100
        badRefs == Len(refs) = 0
        badAlgo == algoName \notin {"FIFO", "LRU", "OPT", "CLOCK"}
    IN /\ badFrames => error = <<"Frames must be an integer between 1 and 50.">>
       /\ (~badFrames /\ badRefs) => error = <<"Reference string cannot be empty.">>
       /\ (~badFrames /\ ~badRefs /\ badAlgo) => error = <<"Unknown algorithm: ", algoName>>
       /\ (~badFrames /\ ~badRefs /\ ~badAlgo) => error = <<>>
       /\ error # <<>> => (pc = "threw" /\ i = 0 /\ steps = <<>> /\ result = <<>>)

C4_Witness ==
  /\ pc = "threw"
  /\ framesCount = 102
  /\ Len(refs) > 0
  /\ algoName = "LRU"
  /\ error = <<"Frames must be an integer between 1 and 50.">>

\* C5: the k-th record (from 0) has index k and requests references[k], and
\* the trace returned has one record for each reference.
C5_TraceOrder ==
  /\ \A k \in Records : steps[k].index = k - 1 /\ steps[k].page = refs[k]
  /\ Len(steps) = i
  /\ pc = "done" => (Len(result[1].steps) = Len(refs) /\ result[1].steps = steps)

C5_Witness ==
  /\ pc = "done"
  /\ algoName = "CLOCK"
  /\ Len(result[1].steps) >= 4

\* the run of policy a from a table of n empty slots and bookkeeping as the
\* policy functions first assign it
FreshOutcome(a, x2, r) ==
  IF Validate(a, x2, r) # <<>> THEN [error |-> Validate(a, x2, r), result |-> <<>>]
  ELSE LET n == x2 \div 2
           fresh == [frames |-> Fill(n, null), pointer |-> 0, lastUsed |-> EmptyMap,
                     refBits |-> IF a = "CLOCK" THEN Fill(n, 0) ELSE <<>>, hand |-> 0,
                     hits |-> 0, faults |-> 0, steps |-> <<>>, threw |-> FALSE]
       IN [error |-> <<>>, result |-> <<Returned(Loop(a, fresh, n, r, 0))>>]

\* C6: whatever calls were made before it, a call that ends has the outcome
\* that its arguments alone determine: the run from an empty table and fresh
\* bookkeeping.
C6_Deterministic ==
  (pc \in {"done", "threw"}) =>
    [error |-> error, result |-> result] = FreshOutcome(algoName, framesCount, refs)

C6_Witness ==
  /\ later
  /\ pc = "done"
  /\ algoName = "FIFO"
  /\ pointer # 0
  /\ result[1].summary.hits > 0

\* C7: over 1,2,3,4,1,2,5,1,2,3,4,5 FIFO makes 9 faults and 3 hits with 3
\* frames, and 10 faults and 2 hits with 4 frames.
C7_BeladyAnomaly ==
  (pc = "done" /\ algoName = "FIFO" /\ refs = <<1, 2, 3, 4, 1, 2, 5, 1, 2, 3, 4, 5>>) =>
    /\ Capacity = 3 => result[1].summary = [hits |-> 3, faults |-> 9]
    /\ Capacity = 4 => result[1].summary = [hits |-> 2, faults |-> 10]

C7_Witness ==
  /\ pc = "done"
  /\ algoName = "FIFO"
  /\ refs = <<1, 2, 3, 4, 1, 2, 5, 1, 2, 3, 4, 5>>
  /\ Capacity = 4
  /\ result[1].summary.faults
       > PageAlgoSimulate("FIFO", 6, refs).result[1].summary.faults

\* C8: every record's snapshot is the table after its step: the last record's
\* snapshot is the table, the requested identifier is in exactly one slot of
\* it, and it differs from the snapshot before in at most one slot, in none
\* on a hit.
C8_SnapshotAfterStep ==
  /\ (pc = "loop" /\ Len(steps) > 0) => steps[Len(steps)].frames = frames
  /\ \A k \in Records :
       LET changed == {x \in 1..Capacity : steps[k].frames[x] # Before(k)[x]}
       IN /\ Cardinality({x \in 1..Capacity : steps[k].frames[x] = steps[k].page}) = 1
          /\ Cardinality(changed) <= 1
          /\ steps[k].hit => changed = {}

C8_Witness ==
  /\ pc = "done"
  /\ algoName = "LRU"
  /\ Evictions # {}
  /\ \E k \in HitRecords : k > Capacity

\* the place of a policy in the fixed list
ListPlace(a) == CHOOSE k \in 1..4 : <<"FIFO", "LRU", "OPT", "CLOCK">>[k] = a

\* C9: the table of the comparator has one row for each of FIFO, LRU, OPT
\* and CLOCK, holding the counts of that policy's run over the typed capacity
\* and references; the rows are in ascending order of faults, then descending
\* order of hits, and rows equal in both are in the order of the fixed list.
C9_Ranking ==
  (compareWrap # <<>>) =>
    /\ Len(compareWrap) = 4
    /\ {compareWrap[k].algo : k \in 1..4} = {"FIFO", "LRU", "OPT", "CLOCK"}
    /\ \A k \in 1..4 :
         LET r == PageAlgoSimulate(compareWrap[k].algo, framesInput, refInput).result[1]
         IN /\ compareWrap[k].hits = r.summary.hits
            /\ compareWrap[k].faults = r.summary.faults
            /\ compareWrap[k].rank = k
    /\ \A k, m \in 1..4 :
         k < m =>
           \/ compareWrap[k].faults < compareWrap[m].faults
           \/ /\ compareWrap[k].faults = compareWrap[m].faults
              /\ compareWrap[k].hits > compareWrap[m].hits
           \/ /\ compareWrap[k].faults = compareWrap[m].faults
              /\ compareWrap[k].hits = compareWrap[m].hits
              /\ ListPlace(compareWrap[k].algo) < ListPlace(compareWrap[m].algo)

C9_Witness ==
  /\ compareWrap # <<>>
  /\ [k \in 1..4 |-> compareWrap[k].algo] = <<"FIFO", "OPT", "CLOCK", "LRU">>
  /\ compareWrap[1].faults = compareWrap[2].faults
  /\ compareWrap[3].faults < compareWrap[4].faults

\* C10: a step is a hit exactly when the requested identifier is in some slot
\* of the table as it stood before the step (the table being the snapshot
\* the step before left); a hit leaves every slot as it was and records no
\* evicted identifier and no evicted slot.
C10_HitIffResident ==
  /\ (pc \in {"loop", "done"} /\ Len(steps) > 0) => steps[Len(steps)].frames = frames
  /\ \A k \in Records :
       /\ steps[k].hit <=> (\E x \in 1..Capacity : Before(k)[x] = steps[k].page)
       /\ steps[k].hit =>
            /\ steps[k].frames = Before(k)
            /\ steps[k].replaced = null
            /\ steps[k].replacedIndex = null

C10_Witness ==
  /\ pc = "done"
  /\ algoName = "CLOCK"
  /\ \E k \in HitRecords : IndexOf(Before(k), null) = -1
  /\ \E k \in FaultRecords : IndexOf(Before(k), null) = -1


\* ---------------------------------------------------------------------
\* C11: for every policy, a fault taken while at least one slot is empty
\* puts the requested identifier into the lowest-indexed empty slot, leaves
\* every other slot as it was, and evicts nothing: the record's evicted
\* identifier and evicted slot index are both none.
LowestEmpty(k) ==
  CHOOSE x \in 1..Capacity :
    Before(k)[x] = null /\ \A y \in 1..(x - 1) : Before(k)[y] # null

C11_FillLowestEmpty ==
  \A k \in FaultRecords :
    (\E x \in 1..Capacity : Before(k)[x] = null) =>
      /\ steps[k].frames = [Before(k) EXCEPT ![LowestEmpty(k)] = steps[k].page]
      /\ steps[k].replaced = null
      /\ steps[k].replacedIndex = null

\* a finished run whose second fault fills the second slot while a third
\* slot is still empty
C11_Witness ==
  /\ pc = "done"
  /\ Capacity >= 3
  /\ \E k \in FaultRecords :
       /\ Before(k)[1] # null
       /\ Before(k)[2] = null
       /\ Before(k)[3] = null
       /\ steps[k].frames[2] = steps[k].page
       /\ steps[k].frames[3] = null

\* ---------------------------------------------------------------------
\* C12: for every policy, a record carries an evicted identifier and an
\* evicted slot index exactly when its step is a fault taken while every
\* slot was occupied.  The evicted identifier is then the one that held the
\* evicted slot before the step, it is not the requested identifier, it is
\* nowhere in the snapshot after the step, and that snapshot holds the
\* requested identifier at the evicted slot index.
FullBefore(k) == \A x \in 1..Capacity : Before(k)[x] # null

C12_EvictionRecord ==
  \A k \in Records :
    LET s == steps[k]
        evicting == s.fault /\ FullBefore(k)
    IN /\ (s.replaced # null) <=> evicting
       /\ (s.replacedIndex # null) <=> evicting
       /\ evicting =>
            /\ s.replacedIndex \in 0..(Capacity - 1)
            /\ s.replaced = Before(k)[s.replacedIndex + 1]
            /\ s.replaced # s.page
            /\ \A x \in 1..Capacity : s.frames[x] # s.replaced
            /\ s.frames[s.replacedIndex + 1] = s.page

\* a finished run with a first-fill fault, a hit and an eviction out of a
\* slot other than the first
C12_Witness ==
  /\ pc = "done"
  /\ \E k \in Evictions : steps[k].replacedIndex > 0 /\ FullBefore(k)
  /\ \E k \in FaultRecords : ~FullBefore(k) /\ steps[k].replaced = null
  /\ \E k \in HitRecords : FullBefore(k) /\ steps[k].replacedIndex = null

\* ---------------------------------------------------------------------
\* C13: FIFO.  On every fault with a full table the victim is the slot at
\* the circular pointer, and that slot holds the resident that was inserted
\* earliest, whatever hits happened since.  The pointer moves on by one
\* modulo the capacity on each eviction and is left alone by hits and by
\* first fills, so at every moment it equals the number of evictions so
\* far modulo the capacity.
\* the record that brought page into the table, as seen just before record k
InsertedAt(page, k) ==
  CHOOSE j \in 1..(k - 1) :
    /\ steps[j].fault /\ steps[j].page = page
    /\ \A m \in (j + 1)..(k - 1) : ~(steps[m].fault /\ steps[m].page = page)

EvictionsBefore(k) == Cardinality({j \in Evictions : j < k})

C13_FIFOPointer ==
  (algoName = "FIFO" /\ pc \in {"loop", "done"}) =>
    /\ pointer = Cardinality(Evictions) % Capacity
    /\ \A k \in Evictions :
         /\ steps[k].replacedIndex = EvictionsBefore(k) % Capacity
         /\ \A x \in 1..Capacity :
              InsertedAt(steps[k].replaced, k) <= InsertedAt(Before(k)[x], k)

\* a finished FIFO run in which the pointer has wrapped around and a page
\* is evicted by the step right after a hit on it
C13_Witness ==
  /\ algoName = "FIFO" /\ pc = "done"
  /\ Capacity >= 2
  /\ Cardinality(Evictions) > Capacity
  /\ \E h \in HitRecords :
       /\ h + 1 \in Evictions
       /\ steps[h + 1].replaced = steps[h].page
       /\ EvictionsBefore(h) > 0

\* ---------------------------------------------------------------------
\* C14: LRU.  The victim of a full-table fault at index i is the resident
\* whose most recent reference among references[0..i-1] is the earliest,
\* the lowest slot index winning a tie.  With capacity 2 and references
\* [1,2,1,3,2] the run has 4 faults and 1 hit, the fault at index 3 evicts
\* 2 and the fault at index 4 evicts 1.
\* the position (from 1) of the latest reference to page before record k
LastReferenced(page, k) ==
  CHOOSE j \in 1..(k - 1) :
    refs[j] = page /\ \A m \in (j + 1)..(k - 1) : refs[m] # page

C14_LRUVictim ==
  (algoName = "LRU" /\ pc \in {"loop", "done"}) =>
    /\ \A k \in Evictions :
         LET v == steps[k].replacedIndex + 1
         IN /\ steps[k].replaced = Before(k)[v]
            /\ \A x \in 1..Capacity :
                 LastReferenced(Before(k)[v], k) <= LastReferenced(Before(k)[x], k)
            /\ \A x \in 1..(v - 1) :
                 LastReferenced(Before(k)[v], k) < LastReferenced(Before(k)[x], k)
    /\ (pc = "done" /\ Capacity = 2 /\ refs = ScenarioRefs) =>
         /\ faults = 4 /\ hits = 1
         /\ Evictions = {4, 5}
         /\ steps[4].index = 3 /\ steps[4].replaced = 2
         /\ steps[5].index = 4 /\ steps[5].replaced = 1

\* the finished scenario run, whose hit on 1 at index 2 saves 1 from the
\* eviction at index 3
C14_Witness ==
  /\ algoName = "LRU" /\ pc = "done"
  /\ Capacity = 2 /\ refs = ScenarioRefs
  /\ steps[3].hit
  /\ steps[4].replaced = 2 /\ steps[4].replacedIndex = 1

\* ---------------------------------------------------------------------
\* C15: LRU bookkeeping.  After every step i the keys of lastUsed are
\* exactly the resident identifiers, and each key p maps to the largest
\* j <= i with references[j] = p.  So the timestamps of the residents are
\* pairwise distinct, and the scan for a victim never falls back on the
\* value used for a missing timestamp.
Residents == {frames[x] : x \in 1..Capacity} \ {null}

C15_LRUBookkeeping ==
  (algoName = "LRU" /\ pc \in {"loop", "done"}) =>
    /\ DOMAIN lastUsed = Residents
    /\ \A p \in DOMAIN lastUsed :
         /\ lastUsed[p] \in 0..(Len(steps) - 1)
         /\ refs[lastUsed[p] + 1] = p
         /\ \A j \in (lastUsed[p] + 2)..Len(steps) : refs[j] # p
    /\ \A p, q \in DOMAIN lastUsed : p # q => lastUsed[p] # lastUsed[q]
    /\ \A k \in Evictions :
         /\ steps[k].note[1] = "FAULT-LRU"
         /\ steps[k].note[4] # NegInfinity
         /\ steps[k].note[4] \in 0..(k - 2)

\* an LRU run in progress that has filled a table of two or more slots,
\* taken a hit and evicted at least once
C15_Witness ==
  /\ algoName = "LRU" /\ pc = "loop"
  /\ Capacity >= 2
  /\ Cardinality(DOMAIN lastUsed) = Capacity
  /\ Evictions # {}
  /\ HitRecords # {}
  /\ Len(steps) < Len(refs)

\* ---------------------------------------------------------------------
\* C16: OPT.  The victim of a full-table fault at index i is the resident
\* whose next occurrence at an index j > i is the farthest, a resident with
\* no later occurrence counting as farther than any that has one, and the
\* lowest slot index winning among equals.  With capacity 2 and references
\* [1,2,1,3,2] the run has 3 faults and 2 hits, and the fault at index 3
\* evicts 1, not 2.
\* the position (from 1) of the next reference to page after record k, or
\* one past the end when there is none
NextReferenced(page, k) ==
  IF \E j \in (k + 1)..Len(refs) : refs[j] = page
  THEN CHOOSE j \in (k + 1)..Len(refs) :
         refs[j] = page /\ \A m \in (k + 1)..(j - 1) : refs[m] # page
  ELSE Len(refs) + 1

C16_OPTVictim ==
  (algoName = "OPT" /\ pc \in {"loop", "done"}) =>
    /\ \A k \in Evictions :
         LET v == steps[k].replacedIndex + 1
         IN /\ steps[k].replaced = Before(k)[v]
            /\ \A x \in 1..Capacity :
                 NextReferenced(Before(k)[x], k) <= NextReferenced(Before(k)[v], k)
            /\ \A x \in 1..(v - 1) :
                 NextReferenced(Before(k)[x], k) < NextReferenced(Before(k)[v], k)
    /\ (pc = "done" /\ Capacity = 2 /\ refs = ScenarioRefs) =>
         /\ faults = 3 /\ hits = 2
         /\ Evictions = {4}
         /\ steps[4].index = 3 /\ steps[4].replaced = 1

\* the finished scenario run: at index 3 the resident 1 is never referenced
\* again and goes, the resident 2 is referenced at index 4 and stays
C16_Witness ==
  /\ algoName = "OPT" /\ pc = "done"
  /\ Capacity = 2 /\ refs = ScenarioRefs
  /\ NextReferenced(1, 4) = Len(refs) + 1
  /\ NextReferenced(2, 4) = 5
  /\ steps[4].replaced = 1 /\ steps[4].replacedIndex = 0
  /\ steps[5].hit

\* ---------------------------------------------------------------------
\* C17: CLOCK.  A hit sets the reference bit of the hit slot to 1 and
\* changes nothing else: the hand, the other bits and the slots stay as
\* they were.  A first fill sets the new slot's bit to 1 and leaves the
\* hand and all other bits as they were.  The meta snapshot of each record
\* (reference bits and hand) is the state after the step.
\* the reference bits and the hand before record k
BeforeMeta(k) ==
  IF k = 1 THEN [refBits |-> [x \in 1..Capacity |-> 0], hand |-> 0]
  ELSE steps[k - 1].meta

C17_ClockHitAndFill ==
  (algoName = "CLOCK" /\ pc \in {"loop", "done"}) =>
    /\ \A k \in HitRecords :
         \E x \in 1..Capacity :
           /\ Before(k)[x] = steps[k].page
           /\ steps[k].meta.refBits = [BeforeMeta(k).refBits EXCEPT ![x] = 1]
           /\ steps[k].meta.hand = BeforeMeta(k).hand
           /\ steps[k].frames = Before(k)
    /\ \A k \in FaultRecords :
         ~FullBefore(k) =>
           /\ steps[k].meta.refBits =
                [BeforeMeta(k).refBits EXCEPT ![LowestEmpty(k)] = 1]
           /\ steps[k].meta.hand = BeforeMeta(k).hand
    /\ Len(steps) > 0 =>
         steps[Len(steps)].meta = [refBits |-> refBits, hand |-> hand]

\* a finished CLOCK run with a hit on a slot whose bit had been cleared by
\* an earlier scan, taken while the hand is off slot 0
C17_Witness ==
  /\ algoName = "CLOCK" /\ pc = "done"
  /\ \E k \in HitRecords : \E x \in 1..Capacity :
       /\ Before(k)[x] = steps[k].page
       /\ BeforeMeta(k).refBits[x] = 0
       /\ steps[k].meta.refBits[x] = 1
       /\ BeforeMeta(k).hand > 0
  /\ \E k \in FaultRecords : ~FullBefore(k) /\ LowestEmpty(k) > 1

\* ---------------------------------------------------------------------
\* C18: CLOCK.  On a fault with a full table the victim is the first slot,
\* in circular order from the hand, whose reference bit is 0, and the slot
\* the hand started on when all bits are 1.  Every slot passed over before
\* the victim has its bit cleared, the victim's slot takes the new entry
\* with bit 1, and the hand ends one past the victim modulo the capacity.
\* With capacity 2 and references [1,2,1,3,2] the run has 3 faults and 2
\* hits, and the eviction at index 3 takes exactly 3 scan steps.
\* the slot (from 1) that is d places round from the hand before record k
Round(k, d) == ((BeforeMeta(k).hand + d) % Capacity) + 1

\* the number of slots the scan of record k passes over before its victim
PassedOver(k) ==
  IF \A x \in 1..Capacity : BeforeMeta(k).refBits[x] = 1
  THEN Capacity
  ELSE CHOOSE d \in 0..(Capacity - 1) :
         /\ BeforeMeta(k).refBits[Round(k, d)] = 0
         /\ \A e \in 0..(d - 1) : BeforeMeta(k).refBits[Round(k, e)] = 1

C18_ClockVictim ==
  (algoName = "CLOCK" /\ pc \in {"loop", "done"}) =>
    /\ \A k \in Evictions :
         LET v == Round(k, PassedOver(k))
             passed == {Round(k, e) : e \in 0..(PassedOver(k) - 1)}
         IN /\ steps[k].replacedIndex + 1 = v
            /\ steps[k].replaced = Before(k)[v]
            /\ steps[k].frames = [Before(k) EXCEPT ![v] = steps[k].page]
            /\ steps[k].meta.refBits =
                 [x \in 1..Capacity |->
                    IF x = v THEN 1
                    ELSE IF x \in passed THEN 0
                    ELSE BeforeMeta(k).refBits[x]]
            /\ steps[k].meta.hand = v % Capacity
            /\ steps[k].note[4] = PassedOver(k) + 1
    /\ (pc = "done" /\ Capacity = 2 /\ refs = ScenarioRefs) =>
         /\ faults = 3 /\ hits = 2
         /\ Evictions = {4}
         /\ steps[4].index = 3 /\ steps[4].note[4] = 3

\* a finished CLOCK run with an eviction that starts off slot 0, passes
\* over one slot and leaves a third slot's bit as it found it
C18_Witness ==
  /\ algoName = "CLOCK" /\ pc = "done"
  /\ Capacity = 3
  /\ \E k \in Evictions :
       /\ BeforeMeta(k).hand > 0
       /\ PassedOver(k) = 1
       /\ steps[k].note[4] = 2
  /\ \E k \in Evictions : PassedOver(k) = Capacity

\* ---------------------------------------------------------------------
\* C19: CLOCK terminates.  On every fault with a full table the scan evicts
\* within at most 2 x capacity scan steps, so the scan loop ends and the
\* safety-break error is never raised for a valid input.
C19_ClockTerminates ==
  (algoName = "CLOCK") =>
    /\ error # ClockBreak
    /\ pc = "threw" => Validate(algoName, framesCount, refs) # <<>>
    /\ \A k \in Evictions :
         /\ steps[k].note[1] = "FAULT-CLOCK"
         /\ steps[k].note[4] \in 1..(2 * Capacity)

\* a finished CLOCK run with an eviction that found every bit set and went
\* a full revolution before taking the slot it started on
C19_Witness ==
  /\ algoName = "CLOCK" /\ pc = "done"
  /\ Capacity = 3
  /\ \E k \in Evictions :
       /\ \A x \in 1..Capacity : BeforeMeta(k).refBits[x] = 1
       /\ steps[k].note[4] = Capacity + 1

\* ---------------------------------------------------------------------
\* C20: playback controller.  After any sequence of Initialize, Step, Play,
\* Pause, Reset, Run-All-and-Compare and timer ticks, the Step button is
\* enabled exactly when a simulation is loaded, it has steps still to
\* reveal (stepIndex < steps.length) and no playback timer is running.  So
\* whatever stops playback (Pause, Run-All-and-Compare, an Initialize
\* turned down for an empty reference string) leaves Step usable.
StepsRemain == sim # <<>> /\ stepIndex < Len(sim[1].steps)

C20_StepEnabledIffReady ==
  (~btnStep) <=> (StepsRemain /\ timerId = null)

\* the page after playback was stopped by something other than Pause: a
\* simulation with steps left, no timer, Play enabled and Step disabled
C20_Witness ==
  /\ StepsRemain
  /\ timerId = null
  /\ ~btnPlay
  /\ btnStep

\* ---------------------------------------------------------------------
\* C21: slot fill.  For every policy and every step the occupied slots are
\* a prefix of the table and the empty slots a suffix: slots are first
\* filled in the order 0, 1, 2, ...  A table that is full never holds an
\* empty slot again, and the number of occupied slots after step i is the
\* smaller of the capacity and the number of distinct identifiers in
\* references[0..i].
\* the number of distinct identifiers among the first n references
DistinctUpTo(n) == Cardinality({refs[j] : j \in 1..n})

\* the number of slots that table should hold after n steps
OccupiedAfter(n) ==
  IF DistinctUpTo(n) < Capacity THEN DistinctUpTo(n) ELSE Capacity

C21_SlotFillPrefix ==
  (pc \in {"loop", "done"}) =>
    /\ \A k \in Records :
         /\ \A x \in 1..Capacity : (steps[k].frames[x] # null) <=> (x <= OccupiedAfter(k))
         /\ FullBefore(k) => \A x \in 1..Capacity : steps[k].frames[x] # null
    /\ \A x \in 1..Capacity : (frames[x] # null) <=> (x <= OccupiedAfter(Len(steps)))

\* a finished run over three slots that stood at two occupied slots across
\* a hit, then filled up and went on to evict
C21_Witness ==
  /\ pc = "done"
  /\ Capacity = 3
  /\ \E k \in HitRecords :
       /\ OccupiedAfter(k) = 2
       /\ steps[k].frames[2] # null
       /\ steps[k].frames[3] = null
  /\ Evictions # {}

\* ---------------------------------------------------------------------
\* C22: monotone in the capacity.  Unlike FIFO, LRU and OPT never fault
\* more when the capacity grows: for every reference sequence and
\* capacities c < c', faults(LRU, c', refs) <= faults(LRU, c, refs) and
\* faults(OPT, c', refs) <= faults(OPT, c, refs).
\* the capacities above the running call's that the comparison takes
LargerCaps == {n \in (Capacity + 1)..(MaxCap + 1) : n <= HiFrames}

\* the fault count of a fresh run of policy a on the same references with
\* capacity n
FaultsWith(a, n) == PageAlgoSimulate(a, 2 * n, refs).result[1].summary.faults

C22_MonotoneInCapacity ==
  (pc = "done" /\ algoName \in {"LRU", "OPT"}) =>
    \A n \in LargerCaps : FaultsWith(algoName, n) <= faults

\* a finished LRU run with three slots that a fourth slot strictly
\* improves, on the references where a fourth slot makes FIFO worse
C22_Witness ==
  /\ pc = "done" /\ algoName = "LRU"
  /\ Capacity = 3
  /\ 4 \in LargerCaps
  /\ FaultsWith("LRU", 4) < faults
  /\ FaultsWith("OPT", 4) < FaultsWith("OPT", 3)
  /\ FaultsWith("FIFO", 4) > FaultsWith("FIFO", 3)
====
